---- MODULE Spec2Model ----
(***************************************************************************)
(* Model of the Dev-Events application: the Event and Booking schemas with *)
(* their pre-save hooks (src/database/booking.model.ts), the route handler *)
(* GET /api/events/[slug] (src/app/api/events/[slug]/route.ts) and the     *)
(* cached database connection (src/unnamed/part_000).                      *)
(*                                                                         *)
(* Strings are sequences of one-character strings, so that trimming, case  *)
(* folding, regular-expression matching and formatting are computed        *)
(* character by character as the code computes them.                       *)
(***************************************************************************)
EXTENDS Integers, Sequences, FiniteSets, TLC

VARIABLES
    fn,         \* the pure-function harness: [op, arg, res] (and src for times)
    cached,     \* globalThis.mongooseCache: [conn, promise]
    attempts,   \* mongoose.connect invocations, in order: "pending" | "resolved" | "rejected"
    callers,    \* connectToDatabase invocations: [pc, awaiting, result, first]
    microQ,     \* continuations queued by a settled promise, in await order
    events,     \* the Event collection: _id -> persisted record, or Absent
    saves,      \* Event documents being saved: [pc, id, mod, doc, ...]
    bookings,   \* the Booking collection: a set of persisted records
    bsaves,     \* Booking documents being saved
    reqs        \* GET /api/events/:slug requests

vars == <<fn, cached, attempts, callers, microQ, events, saves, bookings, bsaves, reqs>>

(***************************************************************************)
(* Characters and strings                                                  *)
(***************************************************************************)
UpperSeq == <<"A","B","C","D","E","F","G","H","I","J","K","L","M",
              "N","O","P","Q","R","S","T","U","V","W","X","Y","Z">>

LowerSeq == <<"a","b","c","d","e","f","g","h","i","j","k","l","m",
              "n","o","p","q","r","s","t","u","v","w","x","y","z">>

DigitSeq == <<"0","1","2","3","4","5","6","7","8","9">>

Range(s) == {s[i] : i \in 1..Len(s)}

UpperChars == Range(UpperSeq)
LowerChars == Range(LowerSeq)
DigitChars == Range(DigitSeq)

\* The characters String.prototype.trim removes and the class \s matches.
WhiteSpace == {" ", "\t", "\n", "\r"}

\* [a-z0-9]
IsSlugChar(c) == c \in LowerChars \cup DigitChars

toLowerCaseChar(c) ==
    IF c \in UpperChars
    THEN LowerSeq[CHOOSE i \in 1..Len(UpperSeq) : UpperSeq[i] = c]
    ELSE c

toUpperCaseChar(c) ==
    IF c \in LowerChars
    THEN UpperSeq[CHOOSE i \in 1..Len(LowerSeq) : LowerSeq[i] = c]
    ELSE c

toLowerCase(s) == [i \in 1..Len(s) |-> toLowerCaseChar(s[i])]
toUpperCase(s) == [i \in 1..Len(s) |-> toUpperCaseChar(s[i])]

RECURSIVE trimStart(_)
trimStart(s) ==
    IF s # <<>> /\ Head(s) \in WhiteSpace THEN trimStart(Tail(s)) ELSE s

RECURSIVE trimEnd(_)
trimEnd(s) ==
    IF s # <<>> /\ s[Len(s)] \in WhiteSpace
    THEN trimEnd(SubSeq(s, 1, Len(s) - 1))
    ELSE s

trim(s) == trimEnd(trimStart(s))

\* Number(digits) for a string of decimal digits.
RECURSIVE Number(_)
Number(s) ==
    IF s = <<>> THEN 0
    ELSE 10 * Number(SubSeq(s, 1, Len(s) - 1))
         + ((CHOOSE i \in 1..10 : DigitSeq[i] = s[Len(s)]) - 1)

\* String(n) for a natural number n.
RECURSIVE String(_)
String(n) ==
    IF n < 10 THEN <<DigitSeq[n + 1]>>
    ELSE String(n \div 10) \o <<DigitSeq[(n % 10) + 1]>>

\* s.padStart(2, "0")
padStart2(s) == IF Len(s) < 2 THEN <<"0">> \o s ELSE s

\* All strings over chars of length at most n.
RECURSIVE StringsUpTo(_, _)
StringsUpTo(chars, n) ==
    IF n = 0 THEN {<<>>}
    ELSE LET shorter == StringsUpTo(chars, n - 1)
         IN  shorter \cup {Append(s, c) : s \in shorter, c \in chars}

(***************************************************************************)
(* slugify                                                                 *)
(***************************************************************************)
\* .replace(/[^a-z0-9]+/g, "-"): every maximal run of other characters
\* becomes one dash.
RECURSIVE replaceNonAlnumRuns(_)
replaceNonAlnumRuns(s) ==
    IF s = <<>> THEN <<>>
    ELSE IF IsSlugChar(Head(s)) THEN <<Head(s)>> \o replaceNonAlnumRuns(Tail(s))
    ELSE IF Len(s) > 1 /\ ~IsSlugChar(s[2]) THEN replaceNonAlnumRuns(Tail(s))
    ELSE <<"-">> \o replaceNonAlnumRuns(Tail(s))

RECURSIVE stripLeadingDashes(_)
stripLeadingDashes(s) ==
    IF s # <<>> /\ Head(s) = "-" THEN stripLeadingDashes(Tail(s)) ELSE s

RECURSIVE stripTrailingDashes(_)
stripTrailingDashes(s) ==
    IF s # <<>> /\ s[Len(s)] = "-"
    THEN stripTrailingDashes(SubSeq(s, 1, Len(s) - 1))
    ELSE s

\* .replace(/^-+|-+$/g, "")
stripEdgeDashes(s) == stripTrailingDashes(stripLeadingDashes(s))

\* .replace(/-{2,}/g, "-")
RECURSIVE collapseDashes(_)
collapseDashes(s) ==
    IF Len(s) < 2 THEN s
    ELSE IF s[1] = "-" /\ s[2] = "-" THEN collapseDashes(Tail(s))
    ELSE <<Head(s)>> \o collapseDashes(Tail(s))

\* A slugify that forgets to strip the dashes at the two ends.
slugifyNoStrip(input) ==
    collapseDashes(replaceNonAlnumRuns(toLowerCase(trim(input))))

slugify(input) ==
    collapseDashes(stripEdgeDashes(replaceNonAlnumRuns(toLowerCase(trim(input)))))

(***************************************************************************)
(* normalizeTimePart, normalizeTime                                        *)
(***************************************************************************)
\* U+2013 and U+2014, written as their code points.
EnDash == "u2013"
EmDash == "u2014"

\* (?:-|u2013|u2014)
DashChars == {"-", EnDash, EmDash}

\* The outcome of a call: a returned string or a thrown Error.
Return(v) == [kind |-> "return", value |-> v, message |-> ""]
Throw(msg) == [kind |-> "throw", value |-> <<>>, message |-> msg]
Pending == [kind |-> "pending", value |-> <<>>, message |-> ""]

InvalidTimePart == "Invalid time. Use HH:mm, h:mm AM/PM, or a range like '09:00-17:00'."
InvalidTimeRange == "Invalid time. Use HH:mm, h:mm AM/PM, or a single '-' separated range."

\* [0-5]\d at positions i, i+1
IsMinutesAt(s, i) ==
    /\ i + 1 <= Len(s)
    /\ s[i] \in {"0", "1", "2", "3", "4", "5"}
    /\ s[i + 1] \in DigitChars

\* /^([01]?\d|2[0-3]):([0-5]\d)$/
match24(raw) ==
    LET n == Len(raw)
        h == SubSeq(raw, 1, n - 3)
    IN  /\ n \in {4, 5}
        /\ raw[n - 2] = ":"
        /\ IsMinutesAt(raw, n - 1)
        /\ \/ Len(h) = 1 /\ h[1] \in DigitChars
           \/ Len(h) = 2 /\ h[1] \in {"0", "1"} /\ h[2] \in DigitChars
           \/ Len(h) = 2 /\ h[1] = "2" /\ h[2] \in {"0", "1", "2", "3"}

\* The length of group 1 of /^([1-9]|1[0-2]):([0-5]\d)\s*(AM|PM)$/i, or 0
\* when the string does not match.
match12(raw) ==
    LET n == Len(raw)
        ok(k) == /\ n >= k + 5
                 /\ raw[k + 1] = ":"
                 /\ IsMinutesAt(raw, k + 2)
                 /\ \A i \in (k + 4)..(n - 2) : raw[i] \in WhiteSpace
                 /\ toUpperCaseChar(raw[n - 1]) \in {"A", "P"}
                 /\ toUpperCaseChar(raw[n]) = "M"
    IN  IF n >= 1 /\ raw[1] \in (DigitChars \ {"0"}) /\ ok(1) THEN 1
        ELSE IF n >= 2 /\ raw[1] = "1" /\ raw[2] \in {"0", "1", "2"} /\ ok(2) THEN 2
        ELSE 0

\* A conversion that forgets midnight and noon.
to24HoursNaive(hours, meridiem) ==
    IF meridiem = "AM" THEN hours ELSE hours + 12

\* The hour conversion of the 12-hour branch.
to24Hours(hours, meridiem) ==
    IF meridiem = "AM"
    THEN (IF hours = 12 THEN 0 ELSE hours)
    ELSE (IF hours # 12 THEN hours + 12 ELSE hours)

normalizeTimePart(part) ==
    LET raw == trim(part)
        n == Len(raw)
        k == match12(raw)
    IN  IF match24(raw)
        THEN Return(padStart2(SubSeq(raw, 1, n - 3)) \o <<":">> \o SubSeq(raw, n - 1, n))
        ELSE IF k > 0
        THEN LET hours == Number(SubSeq(raw, 1, k))
                 minutes == SubSeq(raw, k + 2, k + 3)
                 meridiem == IF toUpperCaseChar(raw[n - 1]) = "A" THEN "AM" ELSE "PM"
             IN  Return(padStart2(String(to24Hours(hours, meridiem))) \o <<":">> \o minutes)
        ELSE Throw(InvalidTimePart)

\* raw.split(/\s*(?:-|u2013|u2014)\s*/): the pieces between the dashes. The
\* white space the separator pattern takes with a dash is removed from the
\* pieces by the .map(trim) that follows.
RECURSIVE splitOnDash(_, _)
splitOnDash(s, cur) ==
    IF s = <<>> THEN <<cur>>
    ELSE IF Head(s) \in DashChars THEN <<cur>> \o splitOnDash(Tail(s), <<>>)
    ELSE splitOnDash(Tail(s), Append(cur, Head(s)))

\* .map((p) => p.trim()).filter(Boolean)
timeParts(raw) ==
    LET pieces == splitOnDash(raw, <<>>)
        trimmed == [i \in 1..Len(pieces) |-> trim(pieces[i])]
    IN  SelectSeq(trimmed, LAMBDA p : p # <<>>)

normalizeTime(input) ==
    LET raw == trim(input)
        parts == timeParts(raw)
    IN  IF Len(parts) = 1 THEN normalizeTimePart(parts[1])
        ELSE IF Len(parts) = 2
        THEN LET a == normalizeTimePart(parts[1])
                 b == normalizeTimePart(parts[2])
             IN  IF a.kind = "throw" THEN a
                 ELSE IF b.kind = "throw" THEN b
                 ELSE Return(a.value \o <<"-">> \o b.value)
        ELSE Throw(InvalidTimeRange)

(***************************************************************************)
(* The state the program starts in                                         *)
(***************************************************************************)
MaxTitleLen == 4
MaxParts == 3

NoFn == [op |-> "none"]

InitFn == fn = NoFn

(***************************************************************************)
(* slugify, called on every title                                          *)
(***************************************************************************)
TitleChars == {"a", "B", "7", " ", "-", "!"}

Titles == StringsUpTo(TitleChars, MaxTitleLen)

CallSlugify ==
    /\ fn.op = "slugify"
    /\ fn.res.kind = "pending"
    /\ fn' = [fn EXCEPT !.res = Return(slugify(fn.arg))]
    /\ UNCHANGED <<cached, attempts, callers, microQ, events, saves, bookings, bsaves, reqs>>

(***************************************************************************)
(* normalizeTime, called on times and ranges written in every accepted and *)
(* some unaccepted ways                                                    *)
(***************************************************************************)
HourStrings ==
    {<<>>, <<"0">>, <<"1">>, <<"7">>, <<"9">>, <<"0","0">>, <<"0","7">>, <<"0","9">>,
     <<"1","0">>, <<"1","1">>, <<"1","2">>, <<"1","3">>, <<"1","9">>, <<"2","0">>,
     <<"2","3">>, <<"2","4">>, <<"2","5">>, <<"0","1","2">>}

MinuteStrings ==
    {<<"0","0">>, <<"0","5">>, <<"3","0">>, <<"5","9">>, <<"6","0">>, <<"5">>, <<"0","0","0">>}

MeridiemStrings ==
    {<<>>, <<" ","A","M">>, <<" ","P","M">>, <<"a","m">>, <<"p","M">>,
     <<" "," ","P","M">>, <<"\t","A","m">>, <<" ","X","M">>, <<" ","A">>, <<"A","M","M">>}

TimeToken(h, m, mer) == [h |-> h, m |-> m, mer |-> mer]

AllTimeTokens ==
    {TimeToken(h, m, mer) : h \in HourStrings, m \in MinuteStrings, mer \in MeridiemStrings}

RangeTimeTokens ==
    {TimeToken(h, m, mer) :
        h \in {<<"9">>, <<"6">>, <<"1","2">>, <<"2","5">>},
        m \in {<<"0","0">>, <<"6","0">>},
        mer \in {<<>>, <<" ","A","M">>, <<" ","P","M">>, <<" ","X","M">>}}

FewTimeTokens ==
    {TimeToken(<<"9">>, <<"0","0">>, <<>>), TimeToken(<<"6">>, <<"0","0">>, <<" ","P","M">>)}

Separators ==
    {<<"-">>, <<" ","-"," ">>, <<EnDash>>, <<" ",EmDash>>, <<"-","-">>, <<"-"," ",EnDash>>}

Paddings == {<<>>, <<" ">>, <<"-">>, <<" ","-"," ">>}

TokensFor(n) ==
    IF n = 1 THEN AllTimeTokens ELSE IF n = 2 THEN RangeTimeTokens ELSE FewTimeTokens

TimeSources ==
    UNION {[tokens : [1..n -> TokensFor(n)],
            sep : IF n < 2 THEN {<<"-">>} ELSE Separators,
            lead : IF n = 2 THEN {<<>>} ELSE Paddings,
            trail : IF n = 2 THEN {<<>>, <<" ">>} ELSE Paddings] : n \in 0..MaxParts}

RenderToken(t) == t.h \o <<":">> \o t.m \o t.mer

RECURSIVE RenderTokens(_, _)
RenderTokens(tokens, sep) ==
    IF tokens = <<>> THEN <<>>
    ELSE IF Len(tokens) = 1 THEN RenderToken(tokens[1])
    ELSE RenderToken(tokens[1]) \o sep \o RenderTokens(Tail(tokens), sep)

RenderTime(src) == src.lead \o RenderTokens(src.tokens, src.sep) \o src.trail

CallNormalizeTime ==
    /\ fn.op = "normalizeTime"
    /\ fn.res.kind = "pending"
    /\ fn' = [fn EXCEPT !.res = normalizeTime(fn.arg)]
    /\ UNCHANGED <<cached, attempts, callers, microQ, events, saves, bookings, bsaves, reqs>>

(***************************************************************************)
(* connectToDatabase and the cache on globalThis                           *)
(*                                                                         *)
(* A connection is named by the number of the mongoose.connect call that   *)
(* made it; 0 stands for null. A promise keeps the list of the callers     *)
(* awaiting it; when it settles their continuations are queued, in that    *)
(* order, and run before the next task starts.                             *)
(***************************************************************************)
MaxCallers == 3
MaxAttempts == 3

Callers == 1..MaxCallers

IdleCaller == [pc |-> "idle", awaiting |-> 0, result |-> 0, first |-> FALSE]

NoFailureYet == \A a \in 1..Len(attempts) : attempts[a].state # "rejected"

\* if (!cached.promise), with the test left out
mustConnectAlways(cache) == TRUE

\* if (!cached.promise)
mustConnect(cache) == cache.promise = 0

\* the catch block, without the reset of the promise
onConnectErrorKeep(cache) == cache

\* catch (err) { cached.promise = null; throw err; }
onConnectError(cache) == [cache EXCEPT !.promise = 0]

\* connectToDatabase() up to its first await or return, run by caller c.
connectToDatabase(c) ==
    /\ callers[c].pc = "idle"
    /\ IF cached.conn # 0
       THEN /\ callers' = [callers EXCEPT ![c] =
                   [pc |-> "returned", awaiting |-> 0, result |-> cached.conn, first |-> FALSE]]
            /\ UNCHANGED <<cached, attempts, microQ>>
       ELSE LET fresh == mustConnect(cached)
                p == IF fresh THEN Len(attempts) + 1 ELSE cached.promise
                tried == IF fresh
                         THEN Append(attempts, [state |-> "pending", reactions |-> <<>>])
                         ELSE attempts
            IN  /\ fresh => Len(attempts) < MaxAttempts
                /\ cached' = [cached EXCEPT !.promise = p]
                /\ attempts' = IF tried[p].state = "pending"
                               THEN [tried EXCEPT ![p].reactions = Append(@, c)]
                               ELSE tried
                /\ microQ' = IF tried[p].state = "pending" THEN microQ ELSE Append(microQ, c)
                /\ callers' = [callers EXCEPT ![c] =
                       [pc |-> "await", awaiting |-> p, result |-> 0, first |-> NoFailureYet]]

\* A call made from a task of its own.
Call(c) ==
    /\ microQ = <<>>
    /\ connectToDatabase(c)
    /\ UNCHANGED <<fn, events, saves, bookings, bsaves, reqs>>

\* mongoose.connect settles: the promise resolves with the connection or
\* rejects, and the continuations of the callers awaiting it are queued.
Settle(a, outcome) ==
    /\ microQ = <<>>
    /\ a \in 1..Len(attempts)
    /\ attempts[a].state = "pending"
    /\ attempts' = [attempts EXCEPT ![a] = [state |-> outcome, reactions |-> <<>>]]
    /\ microQ' = attempts[a].reactions
    /\ UNCHANGED <<fn, cached, callers, events, saves, bookings, bsaves, reqs>>

\* The continuation of `cached.conn = await cached.promise` in the caller at
\* the head of the queue: the assignment and the return, or the catch block.
Resume ==
    /\ microQ # <<>>
    /\ LET c == Head(microQ)
           a == callers[c].awaiting
       IN  IF attempts[a].state = "resolved"
           THEN /\ cached' = [cached EXCEPT !.conn = a]
                /\ callers' = [callers EXCEPT ![c].pc = "returned", ![c].result = a]
           ELSE /\ cached' = onConnectError(cached)
                /\ callers' = [callers EXCEPT ![c].pc = "threw", ![c].result = a]
    /\ microQ' = Tail(microQ)
    /\ UNCHANGED <<fn, attempts, events, saves, bookings, bsaves, reqs>>

\* The caller takes the connection or the error; its slot serves a later call.
Done(c) ==
    /\ microQ = <<>>
    /\ callers[c].pc \in {"returned", "threw"}
    /\ callers' = [callers EXCEPT ![c] = IdleCaller]
    /\ UNCHANGED <<fn, cached, attempts, microQ, events, saves, bookings, bsaves, reqs>>

\* The module has just been evaluated: nothing connected, nothing cached.
InitCache ==
    /\ cached = [conn |-> 0, promise |-> 0]
    /\ attempts = <<>>
    /\ callers = [c \in Callers |-> IdleCaller]
    /\ microQ = <<>>

\* A process whose first connectToDatabase() has completed.
InitConnected ==
    /\ cached = [conn |-> 1, promise |-> 1]
    /\ attempts = <<[state |-> "resolved", reactions |-> <<>>]>>
    /\ callers = [c \in Callers |-> IdleCaller]
    /\ microQ = <<>>

\* bufferCommands: false -- a model operation runs only on an open connection.
DbReady == \E a \in 1..Len(attempts) : attempts[a].state = "resolved"

(***************************************************************************)
(* The Event collection and EventSchema.pre("save")                        *)
(***************************************************************************)
MaxEvents == 3

EventIds == 1..MaxEvents

NoEvent == [exists |-> FALSE, title |-> <<>>, slug |-> <<>>, date |-> <<>>, time |-> <<>>]

SlugError == "Unable to generate slug from title"
DateError == "Invalid date. Provide a valid date string."
DuplicateKey == "E11000 duplicate key error"

\* /^\d{4}-\d{2}-\d{2}$/
isISODate(raw) ==
    /\ Len(raw) = 10
    /\ \A i \in {1, 2, 3, 4, 6, 7, 9, 10} : raw[i] \in DigitChars
    /\ raw[5] = "-"
    /\ raw[8] = "-"

Date_2024_1_5 == <<"2","0","2","4","-","1","-","5">>
Date_2024_01_04 == <<"2","0","2","4","-","0","1","-","0","4">>
Date_2024_01_05 == <<"2","0","2","4","-","0","1","-","0","5">>
Date_garbage == <<"s","o","o","n">>

\* new Date(raw).toISOString().slice(0, 10) on the strings the model saves:
\* the days the build may produce, none when the Date is invalid. A date
\* without a time zone, not in the ISO form, is read as local midnight, which
\* in UTC is that day or the day before.
parsedDates(raw) ==
    IF raw = Date_2024_1_5 THEN {Date_2024_01_04, Date_2024_01_05} ELSE {}

\* The outcomes of normalizeISODate.
normalizeISODate(input) ==
    LET raw == trim(input)
    IN  IF isISODate(raw) THEN {Return(raw)}
        ELSE IF parsedDates(raw) = {} THEN {Throw(DateError)}
        ELSE {Return(d) : d \in parsedDates(raw)}

\* new RegExp(`^${base}(?:-\\d+)?$`) with only the base itself accepted
matchesBaseOnly(slug, base) == slug = base

\* new RegExp(`^${base}(?:-\\d+)?$`).test(slug); base holds only [a-z0-9-],
\* which the pattern reads literally.
matchesBase(slug, base) ==
    \/ slug = base
    \/ /\ Len(slug) > Len(base) + 1
       /\ SubSeq(slug, 1, Len(base)) = base
       /\ slug[Len(base) + 1] = "-"
       /\ \A i \in (Len(base) + 2)..Len(slug) : slug[i] \in DigitChars

\* Model.find({ _id: { $ne: this._id }, slug: <pattern> }).select("slug")
findTaken(store, id, base) ==
    {store[e].slug : e \in {x \in EventIds : x # id /\ store[x].exists
                                             /\ matchesBase(store[x].slug, base)}}

\* while (taken.has(candidate)) { candidate = `${base}-${i}`; i += 1; }
RECURSIVE nextCandidate(_, _, _, _)
nextCandidate(taken, base, candidate, i) ==
    IF candidate \in taken
    THEN nextCandidate(taken, base, base \o <<"-">> \o String(i), i + 1)
    ELSE candidate

\* The suffix joined with an underscore
uniqueSlugUnderscore(store, id, base) ==
    LET taken == findTaken(store, id, base)
    IN  IF taken # {} THEN base \o <<"_">> \o String(Cardinality(taken)) ELSE base

uniqueSlug(store, id, base) ==
    LET taken == findTaken(store, id, base)
    IN  IF taken # {} THEN nextCandidate(taken, base, base, 1) ELSE base

\* The documents the hook may leave in memory, each with the error thrown
\* ("" when the hook completes): the document `doc` with the paths `mod`
\* modified, run against the collection `store`.
preSaveOutcomes(store, id, mod, doc) ==
    LET base == slugify(doc.title)
        d1 == IF "title" \in mod /\ base # <<>>
              THEN [doc EXCEPT !.slug = uniqueSlug(store, id, base)]
              ELSE doc
        dates == IF "date" \in mod THEN normalizeISODate(d1.date) ELSE {Return(d1.date)}
        time == IF "time" \in mod THEN normalizeTime(d1.time) ELSE Return(d1.time)
    IN  IF "title" \in mod /\ base = <<>>
        THEN {[doc |-> doc, error |-> SlugError]}
        ELSE { IF d.kind = "throw"
               THEN [doc |-> d1, error |-> d.message]
               ELSE IF time.kind = "throw"
               THEN [doc |-> [d1 EXCEPT !.date = d.value], error |-> time.message]
               ELSE [doc |-> [d1 EXCEPT !.date = d.value, !.time = time.value], error |-> ""]
             : d \in dates }

\* The unique index, absent
breaksUniqueIndexNever(store, id, slug) == FALSE

\* EventSchema.index({ slug: 1 }, { unique: true }): a write is refused when
\* another document holds the slug.
breaksUniqueIndex(store, id, slug) ==
    \E e \in EventIds : e # id /\ store[e].exists /\ store[e].slug = slug

\* The paths a save writes: the modified ones, and the slug the hook set.
written(mod) == mod \cup (IF "title" \in mod THEN {"slug"} ELSE {})

\* insertOne of a new document, updateOne({ $set: <modified paths> }) of a loaded one.
persist(old, mod, doc) ==
    [exists |-> TRUE,
     title |-> IF "title" \in written(mod) THEN doc.title ELSE old.title,
     slug |-> IF "slug" \in written(mod) THEN doc.slug ELSE old.slug,
     date |-> IF "date" \in written(mod) THEN doc.date ELSE old.date,
     time |-> IF "time" \in written(mod) THEN doc.time ELSE old.time]

IdleSave == [pc |-> "idle", id |-> 0, isNew |-> FALSE, mod |-> {}, doc |-> NoEvent,
             error |-> ""]

\* new Event({ title, date, time, ... }) followed by save(): every path set
\* is modified. The schema trims title, date and time when they are set.
Create(s, titles, dates, times) ==
    /\ DbReady /\ microQ = <<>>
    /\ saves[s].pc = "idle"
    /\ \E id \in EventIds, t \in titles, d \in dates, x \in times :
          /\ ~events[id].exists
          /\ \A o \in DOMAIN saves : saves[o].pc = "idle" \/ saves[o].id # id
          /\ \A e \in EventIds : e < id =>
                events[e].exists \/ \E o \in DOMAIN saves : saves[o].pc # "idle" /\ saves[o].id = e
          /\ saves' = [saves EXCEPT ![s] =
                [pc |-> "started", id |-> id, isNew |-> TRUE, mod |-> {"title", "date", "time"},
                 doc |-> [exists |-> FALSE, title |-> trim(t), slug |-> <<>>,
                          date |-> trim(d), time |-> trim(x)],
                 error |-> ""]]
    /\ UNCHANGED <<fn, cached, attempts, callers, microQ, events, bookings, bsaves, reqs>>

\* A persisted Event is loaded, some of title, date and time are set to new
\* values (a path set to the value it has is not modified), and save() is
\* called.
Update(s, titles, dates, times) ==
    /\ DbReady /\ microQ = <<>>
    /\ saves[s].pc = "idle"
    /\ \E id \in EventIds, mod \in (SUBSET {"title", "date", "time"}) \ {{}},
          t \in titles, d \in dates, x \in times :
          /\ events[id].exists
          /\ "title" \in mod => trim(t) # events[id].title
          /\ "date" \in mod => trim(d) # events[id].date
          /\ "time" \in mod => trim(x) # events[id].time
          /\ saves' = [saves EXCEPT ![s] =
                [pc |-> "started", id |-> id, isNew |-> FALSE, mod |-> mod,
                 doc |-> [events[id] EXCEPT
                            !.title = IF "title" \in mod THEN trim(t) ELSE @,
                            !.date = IF "date" \in mod THEN trim(d) ELSE @,
                            !.time = IF "time" \in mod THEN trim(x) ELSE @],
                 error |-> ""]]
    /\ UNCHANGED <<fn, cached, attempts, callers, microQ, events, bookings, bsaves, reqs>>

\* The hook that forgets it works on a copy: what it sets goes to the store.
PreSaveWriteThrough(s) ==
    /\ DbReady /\ microQ = <<>>
    /\ saves[s].pc = "started"
    /\ \E out \in preSaveOutcomes(events, saves[s].id, saves[s].mod, saves[s].doc) :
          /\ saves' = [saves EXCEPT ![s].doc = out.doc,
                                    ![s].error = out.error,
                                    ![s].pc = IF out.error = "" THEN "hooked" ELSE "failed"]
          /\ events' = [events EXCEPT ![saves[s].id] =
                            IF out.doc.slug # <<>>
                            THEN persist(@, saves[s].mod, out.doc)
                            ELSE @]
    /\ UNCHANGED <<fn, cached, attempts, callers, microQ, bookings, bsaves, reqs>>

\* EventSchema.pre("save"): the hook runs on the document in memory, against
\* the collection as its query finds it; a throw ends the save.
PreSave(s) ==
    /\ DbReady /\ microQ = <<>>
    /\ saves[s].pc = "started"
    /\ \E out \in preSaveOutcomes(events, saves[s].id, saves[s].mod, saves[s].doc) :
          saves' = [saves EXCEPT ![s].doc = out.doc,
                                 ![s].error = out.error,
                                 ![s].pc = IF out.error = "" THEN "hooked" ELSE "failed"]
    /\ UNCHANGED <<fn, cached, attempts, callers, microQ, events, bookings, bsaves, reqs>>

\* The write reaches the collection, where the unique index admits or
\* refuses it.
Commit(s) ==
    /\ DbReady /\ microQ = <<>>
    /\ saves[s].pc = "hooked"
    /\ LET id == saves[s].id
           refused == /\ "slug" \in written(saves[s].mod)
                      /\ breaksUniqueIndex(events, id, saves[s].doc.slug)
       IN  IF refused
           THEN /\ saves' = [saves EXCEPT ![s].pc = "failed", ![s].error = DuplicateKey]
                /\ UNCHANGED events
           ELSE /\ saves' = [saves EXCEPT ![s].pc = "saved"]
                /\ events' = [events EXCEPT ![id] = persist(@, saves[s].mod, saves[s].doc)]
    /\ UNCHANGED <<fn, cached, attempts, callers, microQ, bookings, bsaves, reqs>>

\* save() has resolved or rejected; the slot serves a later save.
Release(s) ==
    /\ microQ = <<>>
    /\ saves[s].pc \in {"saved", "failed"}
    /\ saves' = [saves EXCEPT ![s] = IdleSave]
    /\ UNCHANGED <<fn, cached, attempts, callers, microQ, events, bookings, bsaves, reqs>>

SaveSlots == {1, 2}

InitStore ==
    /\ events = [e \in EventIds |-> NoEvent]
    /\ saves = [s \in SaveSlots |-> IdleSave]

(***************************************************************************)
(* The Booking collection and BookingSchema.pre("save")                    *)
(***************************************************************************)
MaxBookings == 2

BookingIds == 1..MaxBookings

ReferenceError == "Referenced event does not exist"

IdleBooking == [pc |-> "idle", id |-> 0, eventId |-> 0, error |-> ""]

\* Event.exists({ _id: this.eventId }), taken to find whatever is asked for
eventExistsAlways(store, eventId) == TRUE

\* Event.exists({ _id: this.eventId })
eventExists(store, eventId) == eventId \in EventIds /\ store[eventId].exists

\* new Booking({ eventId, email }) followed by save(); eventId is any
\* ObjectId, of an Event or of none.
BookingCreate(b) ==
    /\ DbReady /\ microQ = <<>>
    /\ bsaves[b].pc = "idle"
    /\ \E id \in BookingIds, e \in EventIds :
          /\ id \notin {k.id : k \in bookings}
          /\ \A j \in BookingIds : j < id => j \in {k.id : k \in bookings}
          /\ bsaves' = [bsaves EXCEPT ![b] =
                [pc |-> "started", id |-> id, eventId |-> e, error |-> ""]]
    /\ UNCHANGED <<fn, cached, attempts, callers, microQ, events, saves, bookings, reqs>>

\* BookingSchema.pre("save"): eventId is modified on a new document.
BookingPreSave(b) ==
    /\ DbReady /\ microQ = <<>>
    /\ bsaves[b].pc = "started"
    /\ bsaves' = [bsaves EXCEPT ![b] =
          IF eventExists(events, bsaves[b].eventId)
          THEN [@ EXCEPT !.pc = "hooked"]
          ELSE [@ EXCEPT !.pc = "failed", !.error = ReferenceError]]
    /\ UNCHANGED <<fn, cached, attempts, callers, microQ, events, saves, bookings, reqs>>

\* insertOne of the Booking.
BookingInsert(b) ==
    /\ DbReady /\ microQ = <<>>
    /\ bsaves[b].pc = "hooked"
    /\ bookings' = bookings \cup {[id |-> bsaves[b].id, eventId |-> bsaves[b].eventId]}
    /\ bsaves' = [bsaves EXCEPT ![b].pc = "saved"]
    /\ UNCHANGED <<fn, cached, attempts, callers, microQ, events, saves, reqs>>

BookingRelease(b) ==
    /\ microQ = <<>>
    /\ bsaves[b].pc \in {"saved", "failed"}
    /\ bsaves' = [bsaves EXCEPT ![b] = IdleBooking]
    /\ UNCHANGED <<fn, cached, attempts, callers, microQ, events, saves, bookings, reqs>>

BookingSlots == {1}

InitBookings ==
    /\ bookings = {}
    /\ bsaves = [b \in BookingSlots |-> IdleBooking]

(***************************************************************************)
(* GET /api/events/[slug]                                                  *)
(***************************************************************************)
\* The characters with code 0..127, in order.
AsciiSeq ==
    <<
    "x00", "x01", "x02", "x03", "x04", "x05", "x06", "x07",
    "x08", "\t", "\n", "x0b", "x0c", "\r", "x0e", "x0f",
    "x10", "x11", "x12", "x13", "x14", "x15", "x16", "x17",
    "x18", "x19", "x1a", "x1b", "x1c", "x1d", "x1e", "x1f",
    " ", "!", "\"", "#", "$", "%", "&", "'",
    "(", ")", "*", "+", ",", "-", ".", "/",
    "0", "1", "2", "3", "4", "5", "6", "7",
    "8", "9", ":", ";", "<", "=", ">", "?",
    "@", "A", "B", "C", "D", "E", "F", "G",
    "H", "I", "J", "K", "L", "M", "N", "O",
    "P", "Q", "R", "S", "T", "U", "V", "W",
    "X", "Y", "Z", "[", "x5c", "]", "^", "_",
    "x60", "a", "b", "c", "d", "e", "f", "g",
    "h", "i", "j", "k", "l", "m", "n", "o",
    "p", "q", "r", "s", "t", "u", "v", "w",
    "x", "y", "z", "{", "|", "}", "~", "x7f"
    >>

HexSeq == <<"0","1","2","3","4","5","6","7","8","9","a","b","c","d","e","f">>

IsHex(c) == \E i \in 1..16 : HexSeq[i] = toLowerCaseChar(c)

HexValue(c) == (CHOOSE i \in 1..16 : HexSeq[i] = toLowerCaseChar(c)) - 1

URIError == "URI malformed"

\* decodeURIComponent: %XX below 0x80 is the character with that code. A
\* byte from 0x80 up that is not part of a complete UTF-8 sequence, and a %
\* not followed by two hex digits, throw; the parameters the model sends
\* hold no complete multi-byte sequence.
RECURSIVE decodeURIComponent(_)
decodeURIComponent(s) ==
    IF s = <<>> THEN Return(<<>>)
    ELSE IF Head(s) # "%"
    THEN LET rest == decodeURIComponent(Tail(s))
         IN  IF rest.kind = "throw" THEN rest ELSE Return(<<Head(s)>> \o rest.value)
    ELSE IF Len(s) < 3 \/ ~IsHex(s[2]) \/ ~IsHex(s[3]) THEN Throw(URIError)
    ELSE LET code == 16 * HexValue(s[2]) + HexValue(s[3])
             rest == decodeURIComponent(SubSeq(s, 4, Len(s)))
         IN  IF code >= 128 \/ rest.kind = "throw" THEN Throw(URIError)
             ELSE Return(<<AsciiSeq[code + 1]>> \o rest.value)

\* An isValidSlug that accepts any run of letters, digits and dashes.
isValidSlugLoose(slug) ==
    /\ slug # <<>>
    /\ \A i \in 1..Len(slug) : IsSlugChar(slug[i]) \/ slug[i] = "-"

\* /^[a-z0-9]+(?:-[a-z0-9]+)*$/.test(slug)
isValidSlug(slug) ==
    /\ slug # <<>>
    /\ \A i \in 1..Len(slug) : IsSlugChar(slug[i]) \/ slug[i] = "-"
    /\ slug[1] # "-"
    /\ slug[Len(slug)] # "-"
    /\ \A i \in 1..(Len(slug) - 1) : ~(slug[i] = "-" /\ slug[i + 1] = "-")

Response(status, msg, slug, event) ==
    [status |-> status, message |-> msg, slug |-> slug, event |-> event]

\* The handler up to connectToDatabase(): the response it returns, or status
\* 0 and the slug to look up.
parseSlugParam(rawSlug) ==
    IF rawSlug = <<>> THEN Response(400, "Missing required route parameter: slug", <<>>, 0)
    ELSE LET decoded == decodeURIComponent(rawSlug)
             slug == toLowerCase(trim(decoded.value))
         IN  IF decoded.kind = "throw"
             THEN Response(500, "Unexpected error while fetching event", <<>>, 0)
             ELSE IF ~isValidSlug(slug)
             THEN Response(400, "Invalid slug format", slug, 0)
             ELSE Response(0, "", slug, 0)

\* Event.findOne({ slug }).exec()
findOne(store, slug) ==
    IF \E e \in EventIds : store[e].exists /\ store[e].slug = slug
    THEN CHOOSE e \in EventIds : store[e].exists /\ store[e].slug = slug
    ELSE 0

Requests == {1}

IdleRequest == [pc |-> "idle", raw |-> <<>>, connected |-> FALSE, queried |-> FALSE,
                res |-> Response(0, "", <<>>, 0)]

\* A request arrives: the handler runs to its first response, or to the
\* await of connectToDatabase().
Get(r, raws) ==
    /\ microQ = <<>>
    /\ reqs[r].pc = "idle"
    /\ \E raw \in raws :
          LET out == parseSlugParam(raw)
          IN  IF out.status # 0
              THEN /\ reqs' = [reqs EXCEPT ![r] = [IdleRequest EXCEPT
                                    !.pc = "done", !.raw = raw, !.res = out]]
                   /\ UNCHANGED <<cached, attempts, callers, microQ>>
              ELSE /\ connectToDatabase(r)
                   /\ reqs' = [reqs EXCEPT ![r] = [IdleRequest EXCEPT
                                    !.pc = "connecting", !.raw = raw, !.res = out,
                                    !.connected = TRUE]]
    /\ UNCHANGED <<fn, events, saves, bookings, bsaves>>

\* connectToDatabase() has returned: the lookup runs on the collection.
Lookup(r) ==
    /\ microQ = <<>>
    /\ reqs[r].pc = "connecting"
    /\ callers[r].pc = "returned"
    /\ LET slug == reqs[r].res.slug
           e == findOne(events, slug)
       IN  reqs' = [reqs EXCEPT ![r].pc = "done", ![r].queried = TRUE,
                       ![r].res = IF e = 0
                                  THEN Response(404, "Event not found for slug", slug, 0)
                                  ELSE Response(200, "", slug, e)]
    /\ callers' = [callers EXCEPT ![r] = IdleCaller]
    /\ UNCHANGED <<fn, cached, attempts, microQ, events, saves, bookings, bsaves>>

\* connectToDatabase() has thrown: the catch block answers.
Catch(r) ==
    /\ microQ = <<>>
    /\ reqs[r].pc = "connecting"
    /\ callers[r].pc = "threw"
    /\ reqs' = [reqs EXCEPT ![r].pc = "done",
                    ![r].res = Response(500, "Unexpected error while fetching event",
                                        reqs[r].res.slug, 0)]
    /\ callers' = [callers EXCEPT ![r] = IdleCaller]
    /\ UNCHANGED <<fn, cached, attempts, microQ, events, saves, bookings, bsaves>>

\* The response is sent; the slot serves a later request.
Respond(r) ==
    /\ microQ = <<>>
    /\ reqs[r].pc = "done"
    /\ reqs' = [reqs EXCEPT ![r] = IdleRequest]
    /\ UNCHANGED <<fn, cached, attempts, callers, microQ, events, saves, bookings, bsaves>>

InitRequests == reqs = [r \in Requests |-> IdleRequest]

(***************************************************************************)
(* Specifications                                                          *)
(***************************************************************************)
Title_A_b == <<"A", " ", "b">>
Title_a_b_bang == <<" ", "a", "-", "b", "!">>
Title_a_b_1 == <<"a", " ", "b", " ", "1">>
Title_bang == <<"!">>

Time_9_AM == <<"9", ":", "0", "0", " ", "A", "M">>
Time_25_00 == <<"2", "5", ":", "0", "0">>

\* slugify on every title.
InitSlugify ==
    /\ fn \in {[op |-> "slugify", arg |-> t, res |-> Pending] : t \in Titles}
    /\ InitCache /\ InitStore /\ InitBookings /\ InitRequests

SpecSlugify == InitSlugify /\ [][CallSlugify]_vars

\* normalizeTime on every time written.
InitTime ==
    /\ fn \in {[op |-> "normalizeTime", arg |-> RenderTime(src), src |-> src, res |-> Pending] :
                 src \in TimeSources}
    /\ InitCache /\ InitStore /\ InitBookings /\ InitRequests

SpecTime == InitTime /\ [][CallNormalizeTime]_vars

\* connectToDatabase called from concurrent tasks.
InitConn == InitFn /\ InitCache /\ InitStore /\ InitBookings /\ InitRequests

NextConn ==
    \/ \E c \in Callers : Call(c)
    \/ \E a \in 1..MaxAttempts, outcome \in {"resolved", "rejected"} : Settle(a, outcome)
    \/ Resume
    \/ \E c \in Callers : Done(c)

SpecConn == InitConn /\ [][NextConn]_vars

\* Events created and retitled by concurrent saves.
RaceTitles == {Title_A_b, Title_a_b_bang}

InitEvents == InitFn /\ InitConnected /\ InitStore /\ InitBookings /\ InitRequests

NextEvents ==
    \E s \in SaveSlots :
        \/ Create(s, RaceTitles, {Date_2024_01_05}, {Time_9_AM})
        \/ Update(s, RaceTitles, {Date_2024_01_05}, {Time_9_AM})
        \/ PreSave(s)
        \/ Commit(s)
        \/ Release(s)

SpecEvents == InitEvents /\ [][NextEvents]_vars

\* Events created and retitled one save at a time.
SlugTitles == {Title_A_b, Title_a_b_bang, Title_a_b_1, Title_bang}

NextSequential ==
    \/ Create(1, SlugTitles, {Date_2024_01_05}, {Time_9_AM})
    \/ Update(1, SlugTitles, {Date_2024_01_05}, {Time_9_AM})
    \/ PreSave(1)
    \/ Commit(1)
    \/ Release(1)

SpecSequential == InitEvents /\ [][NextSequential]_vars

\* Events saved one at a time, with titles, dates and times the hook accepts
\* and ones it refuses.
NextAbort ==
    \/ Create(1, {Title_A_b, Title_bang},
              {Date_2024_01_05, Date_2024_1_5, Date_garbage}, {Time_9_AM, Time_25_00})
    \/ Update(1, {Title_a_b_bang, Title_bang},
              {Date_2024_1_5, Date_garbage}, {Time_9_AM, Time_25_00})
    \/ PreSave(1)
    \/ Commit(1)
    \/ Release(1)

SpecAbort == InitEvents /\ [][NextAbort]_vars

\* Bookings made while Events are being created.
NextBooking ==
    \/ Create(1, {Title_A_b}, {Date_2024_01_05}, {Time_9_AM})
    \/ PreSave(1)
    \/ Commit(1)
    \/ Release(1)
    \/ \E b \in BookingSlots : BookingCreate(b)
    \/ \E b \in BookingSlots : BookingPreSave(b)
    \/ \E b \in BookingSlots : BookingInsert(b)
    \/ \E b \in BookingSlots : BookingRelease(b)

SpecBooking == InitEvents /\ [][NextBooking]_vars

\* Requests for event pages while Events are created and retitled.
MaxParamLen == 2

ParamChars == {"a", "B", "-", " ", "%"}

RouteParams ==
    StringsUpTo(ParamChars, MaxParamLen) \cup
    {<<"a","-","b">>, <<"A","-","b">>, <<" ","a","-","b"," ">>, <<"a","-","b","-","1">>,
     <<"a","-","b","-","2">>, <<"a","-","-","b">>, <<"a","%","2","D","b">>,
     <<"a","%","2","0","b">>, <<"%","4","1">>, <<"a","!">>, <<"%","E","2">>, <<"%","z","z">>,
     <<"M","y"," ","T","a","l","k","!">>}

RouteTitles == {Title_A_b, Title_a_b_bang}

InitRoute == InitFn /\ InitCache /\ InitStore /\ InitBookings /\ InitRequests

NextRoute ==
    \/ \E r \in Requests : Get(r, RouteParams)
    \/ \E a \in 1..MaxAttempts, outcome \in {"resolved", "rejected"} : Settle(a, outcome)
    \/ Resume
    \/ \E r \in Requests : Lookup(r)
    \/ \E r \in Requests : Catch(r)
    \/ \E r \in Requests : Respond(r)
    \/ Create(1, RouteTitles, {Date_2024_01_05}, {Time_9_AM})
    \/ Update(1, RouteTitles, {Date_2024_01_05}, {Time_9_AM})
    \/ PreSave(1)
    \/ Commit(1)
    \/ Release(1)

SpecRoute == InitRoute /\ [][NextRoute]_vars

(***************************************************************************)
(* Properties                                                              *)
(***************************************************************************)
\* A string of lowercase letters, digits and dashes in which every dash
\* stands between two characters that are not dashes.
WellFormedSlug(s) ==
    /\ \A i \in 1..Len(s) : s[i] \in LowerChars \cup DigitChars \cup {"-"}
    /\ \A i \in 1..Len(s) : s[i] = "-" =>
          /\ 1 < i /\ i < Len(s)
          /\ s[i - 1] # "-"
          /\ s[i + 1] # "-"

\* C7: for every non-empty title, slugify(title) holds only lowercase
\* letters, digits and single internal dashes: no dash at either end and no
\* two dashes in a row.
C7_SlugifyShape ==
    (fn.res.kind = "return" /\ fn.arg # <<>>) => WellFormedSlug(fn.res.value)

C7_Witness ==
    /\ fn.arg = <<"!", "B", " ", "-">>
    /\ fn.res = Return(<<"b">>)

\* What the specification asks of one time token, read off the way the
\* token was written: hour digits, minute digits and meridiem.
AreDigits(s) == \A i \in 1..Len(s) : s[i] \in DigitChars

MinutesOK(m) == Len(m) = 2 /\ AreDigits(m) /\ Number(m) <= 59

MeridiemOf(t) == toUpperCase(trim(t.mer))

Is24Hour(t) ==
    /\ t.mer = <<>>
    /\ Len(t.h) \in {1, 2} /\ AreDigits(t.h) /\ Number(t.h) <= 23
    /\ MinutesOK(t.m)

Is12Hour(t) ==
    /\ MeridiemOf(t) \in {<<"A", "M">>, <<"P", "M">>}
    /\ Len(t.h) \in {1, 2} /\ AreDigits(t.h) /\ t.h[1] # "0"
    /\ Number(t.h) \in 1..12
    /\ MinutesOK(t.m)

HourOf(t) ==
    LET h == Number(t.h)
    IN  IF Is24Hour(t) THEN h
        ELSE IF MeridiemOf(t) = <<"A", "M">> THEN (IF h = 12 THEN 0 ELSE h)
        ELSE (IF h = 12 THEN 12 ELSE h + 12)

HHmm(t) ==
    <<DigitSeq[(HourOf(t) \div 10) + 1], DigitSeq[(HourOf(t) % 10) + 1], ":">> \o t.m

\* C6: one token, or two tokens separated by dashes, each a 24-hour H:mm or
\* HH:mm (hours 0-23) or a 12-hour h:mm AM/PM (hours 1-12), normalizes to
\* HH:mm or HH:mm-HH:mm with 12 AM -> 00, h AM -> h, 12 PM -> 12 and
\* h PM -> h + 12; any other token count, or any other token, throws.
C6_NormalizeTime ==
    fn.res.kind # "pending" =>
        LET tokens == fn.src.tokens
            n == Len(tokens)
        IN  IF n \in {1, 2} /\ \A i \in 1..n : Is24Hour(tokens[i]) \/ Is12Hour(tokens[i])
            THEN fn.res = Return(IF n = 1 THEN HHmm(tokens[1])
                                 ELSE HHmm(tokens[1]) \o <<"-">> \o HHmm(tokens[2]))
            ELSE fn.res.kind = "throw"

C6_Witness ==
    /\ fn.arg = <<"9",":","0","0"," ","A","M"," ","-"," ","6",":","0","0"," ","P","M">>
    /\ fn.res = Return(<<"0","9",":","0","0","-","1","8",":","0","0">>)

\* C8: the calls made while nothing is connected and nothing has failed all
\* await the one mongoose.connect call, those that return, return its
\* connection, and once a connection is cached no call connects again.
C8_Coalesced ==
    /\ NoFailureYet => Len(attempts) <= 1
    /\ \A c \in Callers : callers[c].first =>
          /\ callers[c].awaiting = 1
          /\ callers[c].pc = "returned" => callers[c].result = 1

C8_SingleFlight ==
    /\ []C8_Coalesced
    /\ [][cached.conn # 0 => Len(attempts') = Len(attempts)]_vars

C8_Witness ==
    /\ Len(attempts) = 1
    /\ \E c, d \in Callers :
          /\ c # d
          /\ callers[c].first /\ callers[c].pc = "returned" /\ callers[c].result = 1
          /\ callers[d].first /\ callers[d].pc = "returned" /\ callers[d].result = 1

\* C9: every caller awaiting a connection attempt that fails gets its error,
\* and the failed promise leaves the cache with the first of them; a call
\* made after a failure starts a new attempt, and a caller returns the
\* connection of the attempt it awaited when that attempt succeeds.
C9_Outcomes ==
    /\ \A c \in Callers :
          /\ callers[c].pc = "threw" =>
                callers[c].result = callers[c].awaiting
                /\ attempts[callers[c].awaiting].state = "rejected"
          /\ (callers[c].pc = "returned" /\ callers[c].awaiting # 0) =>
                callers[c].result = callers[c].awaiting
                /\ attempts[callers[c].awaiting].state = "resolved"
          /\ (callers[c].pc = "await" /\ attempts[callers[c].awaiting].state # "pending") =>
                \E i \in 1..Len(microQ) : microQ[i] = c
    /\ (cached.promise # 0 /\ attempts[cached.promise].state = "rejected") =>
          \A c \in Callers : callers[c].awaiting = cached.promise => callers[c].pc = "await"

C9_Retry ==
    \A c \in Callers :
        ( /\ callers[c].pc = "idle"
          /\ callers'[c].pc # "idle"
          /\ cached.conn = 0
          /\ attempts # <<>>
          /\ attempts[Len(attempts)].state = "rejected" ) =>
        ( /\ Len(attempts') = Len(attempts) + 1
          /\ cached'.promise = Len(attempts')
          /\ callers'[c].awaiting = Len(attempts') )

C9_RetryAfterFailure == []C9_Outcomes /\ [][C9_Retry]_vars

C9_Witness ==
    /\ Len(attempts) = 2
    /\ attempts[1].state = "rejected"
    /\ \E c, d \in Callers :
          /\ callers[c].pc = "threw" /\ callers[c].result = 1
          /\ callers[d].pc = "returned" /\ callers[d].result = 2
    /\ cached = [conn |-> 2, promise |-> 2]

Slug_a_b == <<"a", "-", "b">>
Slug_a_b_1 == <<"a", "-", "b", "-", "1">>
Slug_a_b_2 == <<"a", "-", "b", "-", "2">>

HookErrors == {SlugError, DateError, InvalidTimePart, InvalidTimeRange}

\* C1: no two persisted Events hold the same slug, however the saves
\* interleave; a save the unique index refuses is not persisted.
C1_UniqueSlugs ==
    /\ \A e1, e2 \in EventIds :
          (e1 # e2 /\ events[e1].exists /\ events[e2].exists) =>
              events[e1].slug # events[e2].slug
    /\ \A s \in SaveSlots :
          (saves[s].pc = "failed" /\ saves[s].error = DuplicateKey /\ saves[s].isNew) =>
              ~events[saves[s].id].exists

C1_Witness ==
    \E s \in SaveSlots, e \in EventIds :
        /\ saves[s].pc = "failed" /\ saves[s].error = DuplicateKey /\ saves[s].isNew
        /\ e # saves[s].id
        /\ events[e].exists /\ events[e].slug = saves[s].doc.slug

\* The slugs of the persisted Events other than id.
OtherSlugs(id) == {events[e].slug : e \in {x \in EventIds : x # id /\ events[x].exists}}

Suffixed(base, i) == base \o <<"-">> \o String(i)

\* The base, or the base with the smallest suffix from 1 up that is free.
FirstFree(base, others) ==
    IF base \notin others THEN base
    ELSE Suffixed(base, CHOOSE i \in 1..(Cardinality(others) + 1) :
                           /\ Suffixed(base, i) \notin others
                           /\ \A j \in 1..(i - 1) : Suffixed(base, j) \in others)

\* C2: with saves made one after the other, a save that modifies the title
\* persists the base slug when no other persisted Event holds it, and
\* otherwise the base with the smallest suffix -i, i >= 1, that none holds;
\* the unique index never refuses such a save.
C2_FirstUnusedSuffix ==
    /\ (saves[1].pc = "saved" /\ "title" \in saves[1].mod) =>
          events[saves[1].id].slug =
              FirstFree(slugify(saves[1].doc.title), OtherSlugs(saves[1].id))
    /\ saves[1].pc = "failed" => saves[1].error # DuplicateKey

C2_Witness ==
    /\ saves[1].pc = "saved" /\ saves[1].isNew
    /\ events[saves[1].id].slug = Slug_a_b_2
    /\ {Slug_a_b, Slug_a_b_1} \subseteq OtherSlugs(saves[1].id)

\* C5: when the pre-save hook throws, nothing of the save reaches the
\* collection: every persisted record is as it was, and a document being
\* created is not inserted.
C5_HookThrows ==
    \A s \in SaveSlots :
        (saves[s].pc = "started" /\ saves'[s].pc = "failed") =>
            /\ saves'[s].error \in HookErrors
            /\ events' = events

C5_AbortOnThrow ==
    /\ [][C5_HookThrows]_vars
    /\ [](\A s \in SaveSlots :
            (saves[s].pc = "failed" /\ saves[s].isNew) => ~events[saves[s].id].exists)

C5_Witness ==
    /\ saves[1].pc = "failed" /\ saves[1].error = InvalidTimePart
    /\ saves[1].mod = {"title", "date", "time"} /\ ~saves[1].isNew
    /\ saves[1].doc.date = Date_2024_01_04
    /\ events[saves[1].id].date = Date_2024_01_05
    /\ saves[1].doc.title # events[saves[1].id].title

\* C4: a Booking whose eventId names no Event in the collection when the
\* hook looks fails with "Referenced event does not exist" and is not
\* inserted; every Booking in the collection refers to an Event.
C4_BookingNeedsEvent ==
    /\ \A b \in BookingSlots :
          /\ bsaves[b].pc \in {"hooked", "saved"} => events[bsaves[b].eventId].exists
          /\ bsaves[b].pc = "failed" =>
                /\ bsaves[b].error = ReferenceError
                /\ \A k \in bookings : k.id # bsaves[b].id
    /\ \A k \in bookings : events[k.eventId].exists

C4_Witness ==
    /\ bsaves[1].pc = "failed" /\ bsaves[1].error = ReferenceError
    /\ ~events[bsaves[1].eventId].exists
    /\ bookings # {}
    /\ \A k \in bookings : k.id # bsaves[1].id

HasUpperOrInvalid(raw) ==
    \E i \in 1..Len(raw) : raw[i] \notin LowerChars \cup DigitChars \cup {"-"}

\* C3 as stated, for the parameters whose percent-encoding is well formed:
\* a parameter holding an uppercase or otherwise invalid character is
\* answered 400, with no connection and no lookup.
C3_AsStated ==
    \A r \in Requests :
        ( /\ reqs[r].pc # "idle"
          /\ HasUpperOrInvalid(reqs[r].raw)
          /\ decodeURIComponent(reqs[r].raw).kind = "return" ) =>
            /\ reqs[r].pc = "done"
            /\ reqs[r].res.status = 400
            /\ ~reqs[r].connected /\ ~reqs[r].queried

\* C3, amended: the parameter is decoded, trimmed and lowercased first. If
\* what results does not match the slug pattern the answer is 400, with no
\* connection and no lookup; if it does, the handler goes on to connect, so
\* uppercase letters and surrounding white space alone are not refused; a
\* malformed percent-encoding is answered 500, with no connection either.
C3_InvalidSlugRejected ==
    \A r \in Requests :
        reqs[r].pc # "idle" =>
            LET decoded == decodeURIComponent(reqs[r].raw)
                form == toLowerCase(trim(decoded.value))
            IN  IF decoded.kind = "throw"
                THEN /\ reqs[r].pc = "done" /\ reqs[r].res.status = 500
                     /\ ~reqs[r].connected /\ ~reqs[r].queried
                ELSE IF form = <<>> \/ ~WellFormedSlug(form)
                THEN /\ reqs[r].pc = "done" /\ reqs[r].res.status = 400
                     /\ ~reqs[r].connected /\ ~reqs[r].queried
                ELSE /\ reqs[r].connected
                     /\ reqs[r].pc = "done" => reqs[r].res.status \in {200, 404, 500}

C3_Witness ==
    /\ reqs[1].pc = "done"
    /\ reqs[1].raw = <<"M","y"," ","T","a","l","k","!">>
    /\ reqs[1].res.status = 400
    /\ ~reqs[1].connected /\ ~reqs[1].queried
    /\ cached.conn # 0

\* C10: every slug the hook has persisted matches the handler's pattern and
\* comes through its decoding, trimming and lowercasing unchanged, and a
\* request for the slug of a persisted Event is answered 200 with that Event.
C10_StoredSlugsPass ==
    \A e \in EventIds : events[e].exists =>
        /\ WellFormedSlug(events[e].slug) /\ events[e].slug # <<>>
        /\ parseSlugParam(events[e].slug) = Response(0, "", events[e].slug, 0)

C10_Answered ==
    \A r \in Requests :
        (reqs[r].pc # "done" /\ reqs'[r].pc = "done") =>
            \A e \in EventIds :
                (events[e].exists /\ events[e].slug = reqs'[r].raw) =>
                    /\ reqs'[r].res.status = 200
                    /\ reqs'[r].res.event = e

C10_StoredSlugServed == []C10_StoredSlugsPass /\ [][C10_Answered]_vars

C10_Witness ==
    /\ reqs[1].pc = "done" /\ reqs[1].res.status = 200
    /\ reqs[1].raw = Slug_a_b_1
    /\ reqs[1].res.event # 0
    /\ events[reqs[1].res.event].slug = Slug_a_b_1

====
